---------------------------- MODULE Spec2Model ----------------------------
(***************************************************************************)
(* A model of the lexical analyzer of src/scanner.c and of the driving     *)
(* loop of src/main.c.                                                     *)
(*                                                                         *)
(* A character is a one-character string; the terminating NUL of a C       *)
(* string is the value NUL.  A source buffer is a sequence of characters   *)
(* (without its NUL).  A pointer into the source buffer is its 0-based     *)
(* offset, so that offset Len(src) is the terminating NUL.                 *)
(***************************************************************************)
EXTENDS Integers, Sequences, FiniteSets, TLC

VARIABLES
    source,   \* the buffer handed to initScanner (main.c: run's parameter)
    start,    \* scanner.start, an offset into source
    current,  \* scanner.current, an offset into source
    line,     \* scanner.line
    message,  \* the static diagnostic buffer `message`
    token,    \* the Token the last scanToken call returned
    lastOp,   \* the last call made: "none", "init" or "scan"
    began,    \* history: the offset scanToken last set scanner.start to
    fault,    \* the process has been killed by a memory fault
    probe     \* the argument and the return value of the last call of one
              \* of the static helpers match, peek, peekNext and advance

vars == <<source, start, current, line, message, token, lastOp, began, fault,
          probe>>

----------------------------------------------------------------------------
(* Bounds of the model. *)

\* longest source of the general alphabet
MaxLen == 4
\* longest source of the general alphabet given to the loop of run()
MaxRunLen == 3
\* longest source of operator characters
MaxOpLen == 3
\* longest source of punctuation characters
MaxPunctLen == 2
\* longest source of digits and dots
MaxNumLen == 5
\* longest run of characters appended to a prefix of a reserved word
MaxSuffix == 1
\* longest source of whitespace and comment characters
MaxBlankLen == 5
\* longest source of slashes, '=', blanks, newlines and letters
MaxCommentLen == 5
\* longest source of letters, underscores, digits and what ends a run
MaxIdentLen == 5
\* longest source the static helpers are called on one by one
MaxLookLen == 3

(* Program constants. *)

\* static char message[50]
MessageSize == 50

----------------------------------------------------------------------------
(* Characters and pointers. *)

NUL == "NUL"

\* what a read outside the buffer (before it, or past its terminating NUL)
\* yields
OOB == "OOB"

\* scanner.start / scanner.current of the zero-initialised static scanner
NullPtr == 0 - 1

\* a pointer overwritten by bytes of text
WildPtr == 0 - 2

LowerCase == {"a", "b", "c", "d", "e", "f", "g", "h", "i", "j", "k", "l", "m",
              "n", "o", "p", "q", "r", "s", "t", "u", "v", "w", "x", "y", "z"}

UpperCase == {"A", "B", "C", "D", "E", "F", "G", "H", "I", "J", "K", "L", "M",
              "N", "O", "P", "Q", "R", "S", "T", "U", "V", "W", "X", "Y", "Z"}

Digits == {"0", "1", "2", "3", "4", "5", "6", "7", "8", "9"}

\* *(src + i)
CharAt(src, i) ==
    IF i < 0 THEN OOB
    ELSE IF i < Len(src) THEN src[i + 1]
    ELSE IF i = Len(src) THEN NUL
    ELSE OOB

isAlpha(c) == c \in LowerCase \/ c \in UpperCase \/ c = "_"

isDigit(c) == c \in Digits

isAtEnd(src, cur) == CharAt(src, cur) = NUL

peek(src, cur) == CharAt(src, cur)

\* peekNext looking at the current character
peekNext_Current(src, cur) ==
    IF isAtEnd(src, cur) THEN NUL ELSE CharAt(src, cur)

peekNext(src, cur) ==
    IF isAtEnd(src, cur) THEN NUL ELSE CharAt(src, cur + 1)

\* match consuming the next character whatever it is
match_NoCompare(src, cur, expected) ==
    IF isAtEnd(src, cur) THEN [current |-> cur, ret |-> FALSE]
    ELSE [current |-> cur + 1, ret |-> TRUE]

\* match that compares the character advance() returns
match_AdvanceFirst(src, cur, expected) ==
    IF isAtEnd(src, cur) THEN [current |-> cur, ret |-> FALSE]
    ELSE IF peek(src, cur) # expected THEN [current |-> cur + 1, ret |-> FALSE]
    ELSE [current |-> cur + 1, ret |-> TRUE]

\* match(expected): scanner.current after the call and the value returned
match(src, cur, expected) ==
    IF isAtEnd(src, cur) THEN [current |-> cur, ret |-> FALSE]
    ELSE IF peek(src, cur) # expected THEN [current |-> cur, ret |-> FALSE]
    ELSE [current |-> cur + 1, ret |-> TRUE]

----------------------------------------------------------------------------
(* C strings of diagnostics.  A diagnostic text is a fixed part, of which  *)
(* only the number of bytes (UTF-8) matters, followed by characters taken  *)
(* from the source.                                                        *)

CStr(fixed, arg) == [fixed |-> fixed, arg |-> arg]

strlen(s) == s.fixed + Len(s.arg)

\* the string literals handed to errorToken, by the object they are
Literals ==
    [ multiLineString    |-> CStr(25, <<>>),
      unterminatedString |-> CStr(33, <<>>),
      unterminatedChar   |-> CStr(38, <<>>),
      multiLineChar      |-> CStr(22, <<>>) ]

LiteralNames == DOMAIN Literals

\* the zero-initialised buffer
EmptyMessage == CStr(0, <<>>)

\* sprintf(message, "<19 bytes>%.*s", charLen, charStart)
FormatNonSingle(src, charStart, charLen) ==
    CStr(19, SubSeq(src, charStart + 1, charStart + charLen))

\* a diagnostic that does not name the character
FormatUnexpected_Fixed(character) == CStr(15, <<>>)

\* sprintf(message, "<15 bytes>%c", character)
FormatUnexpected(character) == CStr(15, <<character>>)

\* bytes sprintf stores, the terminating NUL included
BytesWritten(s) == strlen(s) + 1

----------------------------------------------------------------------------
(* Tokens. *)

NoToken == [type |-> "none", base |-> "none", start |-> 0, length |-> 0, line |-> 0]

\* token.start points into the source buffer
makeToken(type, sc) ==
    [type |-> type, base |-> "source", start |-> sc.start,
     length |-> sc.current - sc.start, line |-> sc.line]

\* an error token made like the others, its span in the source
errorToken_Span(base, text, sc) ==
    [type |-> "TOKEN_ERROR", base |-> "source", start |-> sc.start,
     length |-> sc.current - sc.start, line |-> sc.line]

\* token.start is the pointer `base` (a string literal or the buffer
\* `message`), whose text is `text`
errorToken(base, text, sc) ==
    [type |-> "TOKEN_ERROR", base |-> base, start |-> 0,
     length |-> strlen(text), line |-> sc.line]

\* what a handler hands back: the scanner, the diagnostic buffer, the token
\* and the number of bytes it stored into `message`
Result(sc, msg, tok, written) ==
    [sc |-> sc, message |-> msg, token |-> tok, written |-> written]

Moved(sc, cur) == [sc EXCEPT !.current = cur]

----------------------------------------------------------------------------
(* Whitespace and comments.  A scanner value sc is the record              *)
(* [start, current, line] of the struct Scanner.                           *)

RECURSIVE skipLineComment(_, _)
\* while (peek() != '\n' && !isAtEnd()) advance();
skipLineComment(src, cur) ==
    IF peek(src, cur) # "\n" /\ ~isAtEnd(src, cur)
    THEN skipLineComment(src, cur + 1)
    ELSE cur

RECURSIVE skipWhitespace_NoTab(_, _)
\* skipWhitespace without the cases '\r' and '\t'
skipWhitespace_NoTab(src, sc) ==
    LET c == peek(src, sc.current) IN
    CASE c \in {" ", "\n"} ->
            skipWhitespace_NoTab(src, Moved(sc, sc.current + 1))
      [] c = "/" ->
            IF peekNext(src, sc.current) = "/"
            THEN skipWhitespace_NoTab(src, Moved(sc, skipLineComment(src, sc.current)))
            ELSE sc
      [] OTHER -> sc

RECURSIVE skipWhitespace_NoComment(_, _)
\* skipWhitespace that takes every '/' for the start of a token
skipWhitespace_NoComment(src, sc) ==
    LET c == peek(src, sc.current) IN
    CASE c \in {" ", "\r", "\t", "\n"} ->
            skipWhitespace_NoComment(src, Moved(sc, sc.current + 1))
      [] OTHER -> sc

RECURSIVE skipWhitespace(_, _)
\* the four whitespace cases share one body, advance(): the line counter
\* is not touched
skipWhitespace(src, sc) ==
    LET c == peek(src, sc.current) IN
    CASE c \in {" ", "\r", "\t", "\n"} ->
            skipWhitespace(src, Moved(sc, sc.current + 1))
      [] c = "/" ->
            IF peekNext(src, sc.current) = "/"
            THEN skipWhitespace(src, Moved(sc, skipLineComment(src, sc.current)))
            ELSE sc
      [] OTHER -> sc

----------------------------------------------------------------------------
(* Identifiers and reserved words. *)

\* memcmp(scanner.start + kstart, rest, length) == 0
memcmp(src, from, rest, length) ==
    \A i \in 0 .. length - 1 : CharAt(src, from + i) = rest[i + 1]

\* checkKeyword comparing the lexeme's length with `length` alone
checkKeyword_NoStart(src, sc, kstart, length, rest, type) ==
    IF sc.current - sc.start = length
       /\ memcmp(src, sc.start + kstart, rest, length)
    THEN type
    ELSE "TOKEN_IDENTIFIER"

\* checkKeyword accepting every lexeme that begins with the reserved word
checkKeyword_Prefix(src, sc, kstart, length, rest, type) ==
    IF sc.current - sc.start >= kstart + length
       /\ memcmp(src, sc.start + kstart, rest, length)
    THEN type
    ELSE "TOKEN_IDENTIFIER"

checkKeyword(src, sc, kstart, length, rest, type) ==
    IF sc.current - sc.start = kstart + length
       /\ memcmp(src, sc.start + kstart, rest, length)
    THEN type
    ELSE "TOKEN_IDENTIFIER"

identifierType(src, sc) ==
    LET first  == CharAt(src, sc.start)
        len    == sc.current - sc.start
        at(k)  == CharAt(src, sc.start + k)
        kw(kstart, length, rest, type) == checkKeyword(src, sc, kstart, length, rest, type)
        ident  == "TOKEN_IDENTIFIER"
    IN
    CASE first = "b" -> kw(1, 4, <<"r", "e", "a", "k">>, "TOKEN_BREAK")
      [] first = "c" ->
            IF len > 1
            THEN CASE at(1) = "a" -> kw(2, 2, <<"s", "e">>, "TOKEN_CASE")
                   [] at(1) = "h" -> kw(2, 2, <<"a", "r">>, "TOKEN_CHAR")
                   [] at(1) = "o" ->
                        IF len > 3 /\ at(2) = "n"
                        THEN CASE at(3) = "s" -> kw(4, 1, <<"t">>, "TOKEN_CONST")
                               [] at(3) = "t" -> kw(4, 4, <<"i", "n", "u", "e">>, "TOKEN_CONTINUE")
                               [] OTHER -> ident
                        ELSE ident
                   [] OTHER -> ident
            ELSE ident
      [] first = "d" ->
            IF len > 1
            THEN CASE at(1) = "e" -> kw(2, 5, <<"f", "a", "u", "l", "t">>, "TOKEN_DEFAULT")
                   [] at(1) = "o" ->
                        IF len = 2 THEN "TOKEN_DO"
                        ELSE kw(2, 4, <<"u", "b", "l", "e">>, "TOKEN_DOUBLE")
                   [] OTHER -> ident
            ELSE ident
      [] first = "e" ->
            IF len > 1
            THEN CASE at(1) = "l" -> kw(2, 2, <<"s", "e">>, "TOKEN_ELSE")
                   [] at(1) = "n" -> kw(2, 2, <<"u", "m">>, "TOKEN_ENUM")
                   [] OTHER -> ident
            ELSE ident
      [] first = "f" ->
            IF len > 1
            THEN CASE at(1) = "l" -> kw(2, 3, <<"o", "a", "t">>, "TOKEN_FLOAT")
                   [] at(1) = "o" -> kw(2, 1, <<"r">>, "TOKEN_FOR")
                   [] OTHER -> ident
            ELSE ident
      [] first = "g" -> kw(1, 3, <<"o", "t", "o">>, "TOKEN_GOTO")
      [] first = "i" ->
            IF len > 1
            THEN CASE at(1) = "f" -> kw(2, 0, <<>>, "TOKEN_IF")
                   [] at(1) = "n" -> kw(2, 1, <<"t">>, "TOKEN_INT")
                   [] OTHER -> ident
            ELSE ident
      [] first = "l" -> kw(1, 3, <<"o", "n", "g">>, "TOKEN_LONG")
      [] first = "r" -> kw(1, 5, <<"e", "t", "u", "r", "n">>, "TOKEN_RETURN")
      [] first = "s" ->
            IF len > 1
            THEN CASE at(1) = "h" -> kw(2, 3, <<"o", "r", "t">>, "TOKEN_SHORT")
                   [] at(1) = "i" ->
                        IF len > 2
                        THEN CASE at(2) = "g" -> kw(3, 3, <<"n", "e", "d">>, "TOKEN_SIGNED")
                               [] at(2) = "z" -> kw(3, 3, <<"e", "o", "f">>, "TOKEN_SIZEOF")
                               [] OTHER -> ident
                        ELSE ident
                   [] at(1) = "t" -> kw(2, 4, <<"r", "u", "c", "t">>, "TOKEN_STRUCT")
                   [] at(1) = "w" -> kw(2, 4, <<"i", "t", "c", "h">>, "TOKEN_SWITCH")
                   [] OTHER -> ident
            ELSE ident
      [] first = "t" -> kw(1, 6, <<"y", "p", "e", "d", "e", "f">>, "TOKEN_TYPEDEF")
      [] first = "u" ->
            IF len > 2 /\ at(1) = "n"
            THEN CASE at(2) = "i" -> kw(3, 2, <<"o", "n">>, "TOKEN_UNION")
                   [] at(2) = "s" -> kw(3, 5, <<"i", "g", "n", "e", "d">>, "TOKEN_UNSIGNED")
                   [] OTHER -> ident
            ELSE ident
      [] first = "v" -> kw(1, 3, <<"o", "i", "d">>, "TOKEN_VOID")
      [] first = "w" -> kw(1, 4, <<"h", "i", "l", "e">>, "TOKEN_WHILE")
      [] OTHER -> ident

RECURSIVE skipIdentifier_NoDigits(_, _)
\* the loop of identifier() stopping at a digit
skipIdentifier_NoDigits(src, cur) ==
    IF isAlpha(peek(src, cur))
    THEN skipIdentifier_NoDigits(src, cur + 1)
    ELSE cur

RECURSIVE skipIdentifier(_, _)
\* while (isAlpha(peek()) || isDigit(peek())) advance();
skipIdentifier(src, cur) ==
    IF isAlpha(peek(src, cur)) \/ isDigit(peek(src, cur))
    THEN skipIdentifier(src, cur + 1)
    ELSE cur

identifier(src, sc, msg) ==
    LET sc1 == Moved(sc, skipIdentifier(src, sc.current))
    IN  Result(sc1, msg, makeToken(identifierType(src, sc1), sc1), 0)

----------------------------------------------------------------------------
(* Numbers. *)

RECURSIVE skipDigits(_, _)
\* while (isDigit(peek())) advance();
skipDigits(src, cur) ==
    IF isDigit(peek(src, cur)) THEN skipDigits(src, cur + 1) ELSE cur

number(src, sc, msg) ==
    LET c1 == skipDigits(src, sc.current)
        c2 == IF peek(src, c1) = "." /\ isDigit(peekNext(src, c1))
              THEN skipDigits(src, c1 + 1)
              ELSE c1
        sc1 == Moved(sc, c2)
    IN  Result(sc1, msg, makeToken("TOKEN_NUMBER", sc1), 0)

----------------------------------------------------------------------------
(* String and character literals. *)

RECURSIVE skipLiteral_Escapes(_, _, _)
\* the loop of a scanner in which a backslash escapes the next character
skipLiteral_Escapes(src, cur, quote) ==
    IF ~isAtEnd(src, cur) /\ peek(src, cur) # quote
    THEN IF peek(src, cur) = "\n" THEN cur
         ELSE IF peek(src, cur) = "\\" /\ ~isAtEnd(src, cur + 1)
         THEN skipLiteral_Escapes(src, cur + 2, quote)
         ELSE skipLiteral_Escapes(src, cur + 1, quote)
    ELSE cur

RECURSIVE skipLiteral(_, _, _)
\* while (!isAtEnd() && peek() != quote) { if (peek() == '\n') return ...; advance(); }
\* yields the cursor the loop stops at; it stops on a newline, on the
\* closing quote or on the terminating NUL
skipLiteral(src, cur, quote) ==
    IF ~isAtEnd(src, cur) /\ peek(src, cur) # quote
    THEN IF peek(src, cur) = "\n" THEN cur
         ELSE skipLiteral(src, cur + 1, quote)
    ELSE cur

\* string() without the test for the end of the buffer after its loop
string_NoEndCheck(src, sc, msg) ==
    LET cur == skipLiteral(src, sc.current, "\"")
        sc1 == Moved(sc, cur)
    IN
    IF peek(src, cur) = "\n"
    THEN Result(sc1, msg,
                errorToken("multiLineString", Literals.multiLineString, sc1), 0)
    ELSE LET sc2 == Moved(sc1, cur + 1)
         IN  Result(sc2, msg, makeToken("TOKEN_STRING", sc2), 0)

string(src, sc, msg) ==
    LET cur == skipLiteral(src, sc.current, "\"")
        sc1 == Moved(sc, cur)
    IN
    IF peek(src, cur) = "\n"
    THEN Result(sc1, msg,
                errorToken("multiLineString", Literals.multiLineString, sc1), 0)
    ELSE IF isAtEnd(src, cur)
    THEN Result(sc1, msg,
                errorToken("unterminatedString", Literals.unterminatedString, sc1), 0)
    ELSE LET sc2 == Moved(sc1, cur + 1)
         IN  Result(sc2, msg, makeToken("TOKEN_STRING", sc2), 0)

character(src, sc, msg) ==
    IF isAtEnd(src, sc.current)
    THEN Result(sc, msg,
                errorToken("unterminatedChar", Literals.unterminatedChar, sc), 0)
    ELSE
    LET cur == skipLiteral(src, sc.current, "'")
        sc1 == Moved(sc, cur)
    IN
    IF peek(src, cur) = "\n"
    THEN Result(sc1, msg,
                errorToken("multiLineChar", Literals.multiLineChar, sc1), 0)
    ELSE IF isAtEnd(src, cur)
    THEN Result(sc1, msg,
                errorToken("unterminatedChar", Literals.unterminatedChar, sc1), 0)
    ELSE LET sc2     == Moved(sc1, cur + 1)
             charLen == sc2.current - sc2.start - 2
             text    == FormatNonSingle(src, sc2.start + 1, charLen)
         IN  IF charLen = 1 \/ charLen = 0
             THEN Result(sc2, msg, makeToken("TOKEN_CHARACTER", sc2), 0)
             ELSE Result(sc2, text, errorToken("message", text, sc2),
                         BytesWritten(text))

errorTokenWithChar(c, sc) ==
    LET text == FormatUnexpected(c)
    IN  Result(sc, text, errorToken("message", text, sc), BytesWritten(text))

----------------------------------------------------------------------------
(* scanToken. *)

\* the switch of scanToken on the lead character c, the cursor being just
\* after c
dispatch(src, sc, msg, c) ==
    LET try(e)      == match(src, sc.current, e)
        hit(e)      == try(e).ret
        one(type)   == Result(sc, msg, makeToken(type, sc), 0)
        two(e, type) == LET sc1 == Moved(sc, try(e).current)
                        IN  Result(sc1, msg, makeToken(type, sc1), 0)
    IN
    CASE c = "(" -> one("TOKEN_LEFT_PAREN")
      [] c = ")" -> one("TOKEN_RIGHT_PAREN")
      [] c = "{" -> one("TOKEN_LEFT_BRACE")
      [] c = "}" -> one("TOKEN_RIGHT_BRACE")
      [] c = "," -> one("TOKEN_COMMA")
      [] c = "." -> one("TOKEN_DOT")
      [] c = ";" -> one("TOKEN_SEMICOLON")
      [] c = "~" -> one("TOKEN_TILDE")
      [] c = "+" -> IF hit("+") THEN two("+", "TOKEN_PLUS_PLUS")
                    ELSE IF hit("=") THEN two("=", "TOKEN_PLUS_EQUAL")
                    ELSE one("TOKEN_PLUS")
      [] c = "-" -> IF hit("-") THEN two("-", "TOKEN_MINUS_MINUS")
                    ELSE IF hit("=") THEN two("=", "TOKEN_MINUS_EQUAL")
                    ELSE IF hit(">") THEN two(">", "TOKEN_MINUS_GREATER")
                    ELSE one("TOKEN_MINUS")
      [] c = "*" -> IF hit("=") THEN two("=", "TOKEN_STAR_EQUAL") ELSE one("TOKEN_STAR")
      [] c = "/" -> IF hit("=") THEN two("=", "TOKEN_SLASH_EQUAL") ELSE one("TOKEN_SLASH")
      [] c = "%" -> IF hit("=") THEN two("=", "TOKEN_PERCENT_EQUAL") ELSE one("TOKEN_PERCENT")
      [] c = "&" -> IF hit("=") THEN two("=", "TOKEN_AMPER_EQUAL")
                    ELSE IF hit("&") THEN two("&", "TOKEN_AMPER_AMPER")
                    ELSE one("TOKEN_AMPER")
      [] c = "|" -> IF hit("=") THEN two("=", "TOKEN_PIPE_EQUAL")
                    ELSE IF hit("|") THEN two("|", "TOKEN_PIPE_PIPE")
                    ELSE one("TOKEN_PIPE")
      [] c = "^" -> IF hit("=") THEN two("=", "TOKEN_HAT_EQUAL") ELSE one("TOKEN_HAT")
      [] c = "=" -> IF hit("=") THEN two("=", "TOKEN_EQUAL_EQUAL") ELSE one("TOKEN_EQUAL")
      [] c = "!" -> IF hit("=") THEN two("=", "TOKEN_BANG_EQUAL") ELSE one("TOKEN_BANG")
      [] c = "<" -> IF hit("=") THEN two("=", "TOKEN_LESS_EQUAL")
                    ELSE IF hit("<") THEN two("<", "TOKEN_LESS_LESS")
                    ELSE one("TOKEN_LESS")
      [] c = ">" -> IF hit("=") THEN two("=", "TOKEN_GREATER_EQUAL")
                    ELSE IF hit(">") THEN two(">", "TOKEN_GREATER_GREATER")
                    ELSE one("TOKEN_GREATER")
      [] c = "\"" -> string(src, sc, msg)
      [] c = "'" -> character(src, sc, msg)
      [] OTHER -> errorTokenWithChar(c, sc)

\* scanToken consuming the terminating NUL when it returns TOKEN_EOF
scanToken_PastEnd(src, sc0, msg) ==
    LET sc1 == skipWhitespace(src, sc0)
        sc2 == [sc1 EXCEPT !.start = sc1.current]
    IN
    IF isAtEnd(src, sc2.current)
    THEN Result(Moved(sc2, sc2.current + 1), msg, makeToken("TOKEN_EOF", sc2), 0)
    ELSE LET c  == CharAt(src, sc2.current)
             sc == Moved(sc2, sc2.current + 1)
         IN  IF isAlpha(c) THEN identifier(src, sc, msg)
             ELSE IF isDigit(c) THEN number(src, sc, msg)
             ELSE dispatch(src, sc, msg, c)

scanToken(src, sc0, msg) ==
    LET sc1 == skipWhitespace(src, sc0)
        sc2 == [sc1 EXCEPT !.start = sc1.current]
    IN
    IF isAtEnd(src, sc2.current)
    THEN Result(sc2, msg, makeToken("TOKEN_EOF", sc2), 0)
    ELSE LET c  == CharAt(src, sc2.current)
             sc == Moved(sc2, sc2.current + 1)
         IN  IF isAlpha(c) THEN identifier(src, sc, msg)
             ELSE IF isDigit(c) THEN number(src, sc, msg)
             ELSE dispatch(src, sc, msg, c)

----------------------------------------------------------------------------
(* The sources the driver hands over. *)

SeqsUpTo(S, n) == UNION {[1 .. k -> S] : k \in 0 .. n}

Repeat(c, n) == [i \in 1 .. n |-> c]

\* whitespace, comment, quotes, a backslash, a letter, a digit and a
\* character no rule matches
Sigma == {" ", "\n", "/", "\"", "'", "\\", "a", "1", "@"}

\* the enclosed length of a character literal whose diagnostic fills
\* `message` exactly
Capacity == MessageSize - BytesWritten(FormatNonSingle(<<>>, 0, 0))

\* character literals that just fit and that do not fit the buffer
LongSources == {<<"'">> \o Repeat("a", n) \o <<"'">> : n \in {Capacity, Capacity + 1}}

Sources == SeqsUpTo(Sigma, MaxLen) \cup LongSources

\* the line the read-eval-print loop of main.c reads next
NextLine == <<"a", "\n">>

----------------------------------------------------------------------------
(* State and operations. *)

Scanner == [start |-> start, current |-> current, line |-> line]

\* no helper has been called on its own
NoProbe == [arg |-> NUL, ret |-> NUL]

InitOver(S) ==
    /\ source \in S
    /\ start = NullPtr
    /\ current = NullPtr
    /\ line = 0
    /\ message = EmptyMessage
    /\ token = NoToken
    /\ lastOp = "none"
    /\ began = 0
    /\ fault = FALSE
    /\ probe = NoProbe

Init == InitOver(Sources)

\* initScanner that leaves the line counter as it is
initScanner_KeepLine(s) ==
    /\ source' = s
    /\ start' = 0
    /\ current' = 0
    /\ UNCHANGED line

initScanner(s) ==
    /\ source' = s
    /\ start' = 0
    /\ current' = 0
    /\ line' = 1

\* run(source) of main.c begins with initScanner(source); the loop of repl
\* calls run again with the next line
InitScanner ==
    /\ ~fault
    /\ \E s \in {source, NextLine} : initScanner(s)
    /\ lastOp' = "init"
    /\ began' = 0
    /\ UNCHANGED <<message, token, fault, probe>>

\* what storing more than MessageSize bytes into `message` does: the bytes
\* past the buffer land in padding ("intact"), in the static scanner that
\* the linker put behind the buffer ("clobber"), or outside the mapped data
\* ("fault")
OverflowOutcomes == {"intact", "clobber", "fault"}

Return(r) ==
    /\ start' = r.sc.start
    /\ current' = r.sc.current
    /\ line' = r.sc.line
    /\ message' = r.message
    /\ token' = r.token
    /\ began' = r.sc.start
    /\ fault' = FALSE

ReturnClobbered(r) ==
    /\ start' = WildPtr
    /\ current' = WildPtr
    /\ line' = r.sc.line
    /\ message' = r.message
    /\ token' = r.token
    /\ began' = r.sc.start
    /\ fault' = FALSE

Fault ==
    /\ fault' = TRUE
    /\ UNCHANGED <<start, current, line, message, token, began>>

\* a token read from the memory an overwritten scanner.current points to:
\* a run of letters that is no part of the source, the cursor left behind
\* it, still outside the source
StrayToken ==
    [type |-> "TOKEN_IDENTIFIER", base |-> "stray", start |-> WildPtr,
     length |-> 1, line |-> line]

ReturnStray ==
    /\ start' = WildPtr
    /\ current' = WildPtr
    /\ token' = StrayToken
    /\ began' = WildPtr
    /\ fault' = FALSE
    /\ UNCHANGED <<line, message>>

\* what a call does whose scanner.current was overwritten: the address is
\* not mapped ("fault"), or it is and the call scans what lies there
\* ("stray")
WildOutcomes == {"fault", "stray"}

\* one call of scanToken; the contract of scanner.h wants initScanner first
ScanToken ==
    /\ ~fault
    /\ current # NullPtr
    /\ lastOp' = "scan"
    /\ UNCHANGED <<source, probe>>
    /\ IF current = WildPtr
       THEN \E o \in WildOutcomes :
                CASE o = "fault" -> Fault
                  [] o = "stray" -> ReturnStray
       ELSE LET r == scanToken(source, Scanner, message)
            IN  IF r.written > MessageSize
                THEN \E o \in OverflowOutcomes :
                        CASE o = "intact"  -> Return(r)
                          [] o = "clobber" -> ReturnClobbered(r)
                          [] o = "fault"   -> Fault
                ELSE Return(r)

Next == InitScanner \/ ScanToken

Spec == Init /\ [][Next]_vars

(* The loop of run() in main.c: initScanner once, then scanToken until it  *)
(* returns TOKEN_EOF.  The loop has no other exit and never waits.         *)

RunStart == lastOp = "none" /\ InitScanner /\ source' = source

RunScan == lastOp # "none" /\ token.type # "TOKEN_EOF" /\ ScanToken

RunNext == RunStart \/ RunScan

RunSources == SeqsUpTo(Sigma, MaxRunLen) \cup LongSources

InitRun == InitOver(RunSources)

RunSpec == InitRun /\ [][RunNext]_vars /\ WF_vars(RunNext)

----------------------------------------------------------------------------
(* Input families for the reserved words, the operators, the punctuation   *)
(* and the numbers.  They differ from Spec in the sources only.            *)

\* the reserved words and the TokenType member of each
ReservedWords ==
    { [word |-> <<"s", "i", "g", "n", "e", "d">>, tag |-> "TOKEN_SIGNED"],
      [word |-> <<"u", "n", "s", "i", "g", "n", "e", "d">>, tag |-> "TOKEN_UNSIGNED"],
      [word |-> <<"c", "h", "a", "r">>, tag |-> "TOKEN_CHAR"],
      [word |-> <<"s", "h", "o", "r", "t">>, tag |-> "TOKEN_SHORT"],
      [word |-> <<"i", "n", "t">>, tag |-> "TOKEN_INT"],
      [word |-> <<"l", "o", "n", "g">>, tag |-> "TOKEN_LONG"],
      [word |-> <<"f", "l", "o", "a", "t">>, tag |-> "TOKEN_FLOAT"],
      [word |-> <<"d", "o", "u", "b", "l", "e">>, tag |-> "TOKEN_DOUBLE"],
      [word |-> <<"s", "t", "r", "u", "c", "t">>, tag |-> "TOKEN_STRUCT"],
      [word |-> <<"u", "n", "i", "o", "n">>, tag |-> "TOKEN_UNION"],
      [word |-> <<"e", "n", "u", "m">>, tag |-> "TOKEN_ENUM"],
      [word |-> <<"v", "o", "i", "d">>, tag |-> "TOKEN_VOID"],
      [word |-> <<"i", "f">>, tag |-> "TOKEN_IF"],
      [word |-> <<"e", "l", "s", "e">>, tag |-> "TOKEN_ELSE"],
      [word |-> <<"s", "w", "i", "t", "c", "h">>, tag |-> "TOKEN_SWITCH"],
      [word |-> <<"c", "a", "s", "e">>, tag |-> "TOKEN_CASE"],
      [word |-> <<"d", "e", "f", "a", "u", "l", "t">>, tag |-> "TOKEN_DEFAULT"],
      [word |-> <<"w", "h", "i", "l", "e">>, tag |-> "TOKEN_WHILE"],
      [word |-> <<"d", "o">>, tag |-> "TOKEN_DO"],
      [word |-> <<"f", "o", "r">>, tag |-> "TOKEN_FOR"],
      [word |-> <<"b", "r", "e", "a", "k">>, tag |-> "TOKEN_BREAK"],
      [word |-> <<"c", "o", "n", "t", "i", "n", "u", "e">>, tag |-> "TOKEN_CONTINUE"],
      [word |-> <<"r", "e", "t", "u", "r", "n">>, tag |-> "TOKEN_RETURN"],
      [word |-> <<"g", "o", "t", "o">>, tag |-> "TOKEN_GOTO"],
      [word |-> <<"c", "o", "n", "s", "t">>, tag |-> "TOKEN_CONST"],
      [word |-> <<"s", "i", "z", "e", "o", "f">>, tag |-> "TOKEN_SIZEOF"],
      [word |-> <<"t", "y", "p", "e", "d", "e", "f">>, tag |-> "TOKEN_TYPEDEF"] }

Words == {k.word : k \in ReservedWords}

TagOf(w) == (CHOOSE k \in ReservedWords : k.word = w).tag

LowerSeq == <<"a", "b", "c", "d", "e", "f", "g", "h", "i", "j", "k", "l", "m",
              "n", "o", "p", "q", "r", "s", "t", "u", "v", "w", "x", "y", "z">>

UpperSeq == <<"A", "B", "C", "D", "E", "F", "G", "H", "I", "J", "K", "L", "M",
              "N", "O", "P", "Q", "R", "S", "T", "U", "V", "W", "X", "Y", "Z">>

UpperOf(c) == UpperSeq[CHOOSE i \in 1 .. Len(LowerSeq) : LowerSeq[i] = c]

Prefixes(w) == {SubSeq(w, 1, k) : k \in 1 .. Len(w)}

\* a reserved word with its first letter in upper case
Capitalized(w) == [w EXCEPT ![1] = UpperOf(w[1])]

\* a reserved word with one letter replaced
Misspelt(w) == {[w EXCEPT ![i] = "x"] : i \in 1 .. Len(w)}

SuffixChars == {"s", "t", "f", "X", "_", "9"}

\* prefixes of reserved words (the words included), each extended by up to
\* MaxSuffix characters; case variants; misspellings
Lexemes ==
    {p \o s : p \in UNION {Prefixes(w) : w \in Words},
              s \in SeqsUpTo(SuffixChars, MaxSuffix)}
    \cup {Capitalized(w) : w \in Words}
    \cup UNION {Misspelt(w) : w \in Words}

\* a lexeme alone, after a blank, and before a character that ends it
WordSources ==
    {l \o x \o t : l \in {<<>>, <<" ">>}, x \in Lexemes, t \in {<<>>, <<"(">>}}

OpSigma == {"+", "-", "*", "/", "%", "&", "|", "^", "=", "!", "<", ">"}

OpSources == SeqsUpTo(OpSigma, MaxOpLen)

PunctSigma == {"(", ")", "[", "]", "{", "}", ",", ".", ";", "~", " "}

PunctSources == SeqsUpTo(PunctSigma, MaxPunctLen)

NumSigma == {"1", "2", ".", "a"}

NumSources == SeqsUpTo(NumSigma, MaxNumLen)

\* the whitespace characters, the slash and a letter
BlankSigma == {" ", "\t", "\r", "\n", "/", "a"}

BlankSources == SeqsUpTo(BlankSigma, MaxBlankLen)

\* the slash, what may follow it, whitespace and a letter
CommentSigma == {"/", "=", " ", "\n", "a"}

CommentSources == SeqsUpTo(CommentSigma, MaxCommentLen)

\* a letter, the underscore, a digit, a blank and an operator
IdentSigma == {"a", "_", "1", " ", "+"}

\* a reserved word followed by a digit, one followed by an underscore, and
\* digits followed by letters
IdentExamples ==
    { <<"i", "n", "t", "9">>,
      <<"f", "o", "r", "_">>,
      <<"1", "2", "3", "a", "b", "c">> }

IdentSources == SeqsUpTo(IdentSigma, MaxIdentLen) \cup IdentExamples

InitWords == InitOver(WordSources)

SpecWords == InitWords /\ [][Next]_vars

InitOps == InitOver(OpSources)

SpecOps == InitOps /\ [][Next]_vars

InitPunct == InitOver(PunctSources)

SpecPunct == InitPunct /\ [][Next]_vars

InitNum == InitOver(NumSources)

SpecNum == InitNum /\ [][Next]_vars

InitBlank == InitOver(BlankSources)

SpecBlank == InitBlank /\ [][Next]_vars

InitComment == InitOver(CommentSources)

SpecComment == InitComment /\ [][Next]_vars

InitIdent == InitOver(IdentSources)

SpecIdent == InitIdent /\ [][Next]_vars

(* The static helpers called one at a time on an initialised scanner, as   *)
(* the handlers of scanToken call them.                                    *)

\* two operator characters and a letter
LookSigma == {"+", "=", "a"}

LookSources == SeqsUpTo(LookSigma, MaxLookLen)

\* the characters match is asked for
Expected == {"+", "="}

\* the helpers are reached through scanToken only, on a scanner that
\* initScanner has set up
Callable == ~fault /\ current # NullPtr /\ current # WildPtr

\* advance(); every caller has made sure the cursor is not at the end
Advance ==
    /\ Callable
    /\ ~isAtEnd(source, current)
    /\ current' = current + 1
    /\ probe' = [arg |-> NUL, ret |-> CharAt(source, current)]
    /\ lastOp' = "advance"
    /\ UNCHANGED <<source, start, line, message, token, began, fault>>

\* match(expected)
Match(expected) ==
    /\ Callable
    /\ LET m == match(source, current, expected)
       IN  /\ current' = m.current
           /\ probe' = [arg |-> expected, ret |-> m.ret]
    /\ lastOp' = "match"
    /\ UNCHANGED <<source, start, line, message, token, began, fault>>

\* peek()
Peek ==
    /\ Callable
    /\ probe' = [arg |-> NUL, ret |-> peek(source, current)]
    /\ lastOp' = "peek"
    /\ UNCHANGED <<source, start, current, line, message, token, began, fault>>

\* peekNext()
PeekNext ==
    /\ Callable
    /\ probe' = [arg |-> NUL, ret |-> peekNext(source, current)]
    /\ lastOp' = "peekNext"
    /\ UNCHANGED <<source, start, current, line, message, token, began, fault>>

LookNext ==
    \/ InitScanner
    \/ Advance
    \/ \E expected \in Expected : Match(expected)
    \/ Peek
    \/ PeekNext

InitLook == InitOver(LookSources)

SpecLook == InitLook /\ [][LookNext]_vars

----------------------------------------------------------------------------
(* Properties. *)

\* the last call was scanToken and it returned `token`
Returned == lastOp = "scan" /\ ~fault

\* the lead character of the token last returned
Lead == CharAt(source, began)

\* the number of newline characters before offset k
NewlinesBefore(src, k) == Cardinality({i \in 1 .. k : src[i] = "\n"})

\* C1: every token scanToken returns reports as its line 1 plus the number
\* of newline characters of the source that precede its first character.
C1_LineTracking ==
    (Returned /\ token.type # "TOKEN_EOF")
        => token.line = 1 + NewlinesBefore(source, began)

\* C2: the loop of run() (initScanner once, then scanToken again and again)
\* eventually receives a token of type TOKEN_EOF.
C2_Termination == <>(Returned /\ token.type = "TOKEN_EOF")

\* the characters the span of the token last returned covers
TokenText == SubSeq(source, token.start + 1, token.start + token.length)

\* the token last returned came from identifier()
IsWordToken == Returned /\ token.base = "source" /\ isAlpha(Lead)

\* C3: when the identifier run scanned is exactly one of the 27 reserved
\* words, the token's type is that word's own keyword tag.
C3_KeywordTags ==
    (IsWordToken /\ TokenText \in Words) => token.type = TagOf(TokenText)

C3_Witness ==
    /\ IsWordToken
    /\ TokenText = <<"d", "o">>
    /\ token.type = "TOKEN_DO"
    /\ began = 1

\* C4: every identifier run that is not exactly equal to a reserved word
\* (a proper prefix, an extension, a case variant, a misspelling) is a
\* TOKEN_IDENTIFIER.
C4_NonKeywords ==
    (IsWordToken /\ TokenText \notin Words) => token.type = "TOKEN_IDENTIFIER"

C4_Witness ==
    /\ IsWordToken
    /\ TokenText = <<"d", "o", "t">>
    /\ token.type = "TOKEN_IDENTIFIER"
    /\ CharAt(source, current) = "("

\* the operators and the TokenType member of each
Operators ==
    { [text |-> <<"+">>, tag |-> "TOKEN_PLUS"],
      [text |-> <<"+", "+">>, tag |-> "TOKEN_PLUS_PLUS"],
      [text |-> <<"+", "=">>, tag |-> "TOKEN_PLUS_EQUAL"],
      [text |-> <<"-">>, tag |-> "TOKEN_MINUS"],
      [text |-> <<"-", "-">>, tag |-> "TOKEN_MINUS_MINUS"],
      [text |-> <<"-", "=">>, tag |-> "TOKEN_MINUS_EQUAL"],
      [text |-> <<"-", ">">>, tag |-> "TOKEN_MINUS_GREATER"],
      [text |-> <<"*">>, tag |-> "TOKEN_STAR"],
      [text |-> <<"*", "=">>, tag |-> "TOKEN_STAR_EQUAL"],
      [text |-> <<"/">>, tag |-> "TOKEN_SLASH"],
      [text |-> <<"/", "=">>, tag |-> "TOKEN_SLASH_EQUAL"],
      [text |-> <<"%">>, tag |-> "TOKEN_PERCENT"],
      [text |-> <<"%", "=">>, tag |-> "TOKEN_PERCENT_EQUAL"],
      [text |-> <<"&">>, tag |-> "TOKEN_AMPER"],
      [text |-> <<"&", "=">>, tag |-> "TOKEN_AMPER_EQUAL"],
      [text |-> <<"&", "&">>, tag |-> "TOKEN_AMPER_AMPER"],
      [text |-> <<"|">>, tag |-> "TOKEN_PIPE"],
      [text |-> <<"|", "=">>, tag |-> "TOKEN_PIPE_EQUAL"],
      [text |-> <<"|", "|">>, tag |-> "TOKEN_PIPE_PIPE"],
      [text |-> <<"^">>, tag |-> "TOKEN_HAT"],
      [text |-> <<"^", "=">>, tag |-> "TOKEN_HAT_EQUAL"],
      [text |-> <<"=">>, tag |-> "TOKEN_EQUAL"],
      [text |-> <<"=", "=">>, tag |-> "TOKEN_EQUAL_EQUAL"],
      [text |-> <<"!">>, tag |-> "TOKEN_BANG"],
      [text |-> <<"!", "=">>, tag |-> "TOKEN_BANG_EQUAL"],
      [text |-> <<"<">>, tag |-> "TOKEN_LESS"],
      [text |-> <<"<", "=">>, tag |-> "TOKEN_LESS_EQUAL"],
      [text |-> <<"<", "<">>, tag |-> "TOKEN_LESS_LESS"],
      [text |-> <<">">>, tag |-> "TOKEN_GREATER"],
      [text |-> <<">", "=">>, tag |-> "TOKEN_GREATER_EQUAL"],
      [text |-> <<">", ">">>, tag |-> "TOKEN_GREATER_GREATER"] }

OpTexts == {o.text : o \in Operators}

OpTag(x) == (CHOOSE o \in Operators : o.text = x).tag

\* the lead character with the character after it
LeadPair == <<Lead, CharAt(source, began + 1)>>

\* C5 (each call): a token whose lead character is an operator character is
\* the two-character operator if the lead and the next character form one,
\* and the one-character operator otherwise; it never spans three.
C5_LongestMatch ==
    (Returned /\ Lead \in OpSigma) =>
        /\ token.base = "source"
        /\ token.start = began
        /\ current = began + token.length
        /\ IF LeadPair \in OpTexts
           THEN token.type = OpTag(LeadPair) /\ token.length = 2
           ELSE token.type = OpTag(<<Lead>>) /\ token.length = 1

\* C5 (successive calls): after << or >> before a single '=', the next
\* call returns TOKEN_EQUAL over that '='.
C5_ShiftThenEqual ==
    (/\ Returned
     /\ token.type \in {"TOKEN_LESS_LESS", "TOKEN_GREATER_GREATER"}
     /\ CharAt(source, current) = "="
     /\ CharAt(source, current + 1) # "="
     /\ lastOp' = "scan")
        => (token'.type = "TOKEN_EQUAL" /\ token'.length = 1
            /\ token'.start = current)

\* C5: operator longest match; "<<=" is TOKEN_LESS_LESS then TOKEN_EQUAL and
\* ">>=" is TOKEN_GREATER_GREATER then TOKEN_EQUAL.
C5_Operators == []C5_LongestMatch /\ [][C5_ShiftThenEqual]_vars

C5_Witness ==
    /\ Returned
    /\ source = <<"<", "<", "=">>
    /\ token.type = "TOKEN_EQUAL"
    /\ token.start = 2
    /\ token.length = 1

\* the single-character punctuation and the TokenType member of each
Punctuation ==
    { [text |-> "(", tag |-> "TOKEN_LEFT_PAREN"],
      [text |-> ")", tag |-> "TOKEN_RIGHT_PAREN"],
      [text |-> "[", tag |-> "TOKEN_LEFT_BRACKET"],
      [text |-> "]", tag |-> "TOKEN_RIGHT_BRACKET"],
      [text |-> "{", tag |-> "TOKEN_LEFT_BRACE"],
      [text |-> "}", tag |-> "TOKEN_RIGHT_BRACE"],
      [text |-> ",", tag |-> "TOKEN_COMMA"],
      [text |-> ".", tag |-> "TOKEN_DOT"],
      [text |-> ";", tag |-> "TOKEN_SEMICOLON"],
      [text |-> "~", tag |-> "TOKEN_TILDE"] }

PunctChars == {q.text : q \in Punctuation}

PunctTag(c) == (CHOOSE q \in Punctuation : q.text = c).tag

\* C6: a token whose lead character is one of ( ) [ ] { } , . ; ~ has the
\* corresponding punctuation type and spans that one character; it is
\* never TOKEN_ERROR.
C6_Punctuation ==
    (Returned /\ Lead \in PunctChars) =>
        /\ token.type = PunctTag(Lead)
        /\ token.base = "source"
        /\ token.start = began
        /\ token.length = 1

\* the offset of the first character at or after s that is no digit
DigitRunEnd(src, s) ==
    CHOOSE k \in s .. Len(src) :
        /\ \A j \in s .. k - 1 : isDigit(CharAt(src, j))
        /\ ~isDigit(CharAt(src, k))

\* the end of the number that begins at s: the digits, and a '.' with the
\* digits after it only if a digit follows the '.'
NumberEnd(src, s) ==
    LET i == DigitRunEnd(src, s)
    IN  IF CharAt(src, i) = "." /\ isDigit(CharAt(src, i + 1))
        THEN DigitRunEnd(src, i + 1)
        ELSE i

\* C7 (each call): at a digit, one TOKEN_NUMBER over the maximal run of
\* digits, extended by '.' and digits only if a digit follows the '.';
\* a lead '.' is TOKEN_DOT.
C7_NumberSpan ==
    /\ (Returned /\ isDigit(Lead)) =>
            /\ token.type = "TOKEN_NUMBER"
            /\ token.base = "source"
            /\ token.start = began
            /\ token.length = NumberEnd(source, began) - began
            /\ current = NumberEnd(source, began)
    /\ (Returned /\ Lead = ".") =>
            /\ token.type = "TOKEN_DOT"
            /\ token.start = began
            /\ token.length = 1

\* C7 (successive calls): a '.' left behind a number is the next token.
C7_ThenDot ==
    (/\ Returned
     /\ token.type = "TOKEN_NUMBER"
     /\ CharAt(source, current) = "."
     /\ lastOp' = "scan")
        => (token'.type = "TOKEN_DOT" /\ token'.start = current
            /\ token'.length = 1)

\* C7: number literals; "3.14" is one number, "123." is a number and a
\* dot, "1.2.3" is the number 1.2, a dot and the number 3.
C7_Numbers == []C7_NumberSpan /\ [][C7_ThenDot]_vars

C7_Witness ==
    /\ Returned
    /\ source = <<"1", ".", "2", ".", "1">>
    /\ token.type = "TOKEN_NUMBER"
    /\ token.start = 4
    /\ token.length = 1

\* a quote q closes the literal opened at s: it occurs later, with no
\* newline between
HasClosing(src, s, q) ==
    \E k \in s + 1 .. Len(src) - 1 :
        /\ CharAt(src, k) = q
        /\ \A j \in s + 1 .. k - 1 : CharAt(src, j) # "\n"

\* the offset of the first q after s
FirstQuote(src, s, q) ==
    CHOOSE k \in s + 1 .. Len(src) - 1 :
        /\ CharAt(src, k) = q
        /\ \A j \in s + 1 .. k - 1 : CharAt(src, j) # q

\* neither q nor a newline occurs after s
Unterminated(src, s, q) ==
    \A k \in s + 1 .. Len(src) - 1 : CharAt(src, k) \notin {q, "\n"}

\* text occurs in s as a run of consecutive characters
Contains(s, text) ==
    \E i \in 1 .. Len(s) + 1 : SubSeq(s, i, i + Len(text) - 1) = text

\* C8: a string literal closed on its line is one TOKEN_STRING from the
\* opening quote to the first following '"' inclusive, the cursor just
\* after it; backslash, '//' and single quotes inside are content.
C8_Strings ==
    (Returned /\ Lead = "\"" /\ HasClosing(source, began, "\"")) =>
        LET k == FirstQuote(source, began, "\"")
        IN  /\ token.type = "TOKEN_STRING"
            /\ token.base = "source"
            /\ token.start = began
            /\ token.length = (k - began - 1) + 2
            /\ current = k + 1

C8_Witness ==
    /\ Returned
    /\ source = <<"\"", "\\", "\"", "\"">>
    /\ token.type = "TOKEN_STRING"
    /\ token.start = 0
    /\ token.length = 3
    /\ current = 3

\* C9: a character literal closed on its line is TOKEN_CHARACTER (both
\* quotes in the span) if it encloses 0 or 1 characters and TOKEN_ERROR
\* with a message containing the enclosed text if it encloses 2 or more;
\* either way the cursor is left just after the closing quote.
C9_Characters ==
    (Returned /\ Lead = "'" /\ HasClosing(source, began, "'")) =>
        LET k == FirstQuote(source, began, "'")
            n == k - began - 1
        IN  /\ current = k + 1
            /\ IF n <= 1
               THEN /\ token.type = "TOKEN_CHARACTER"
                    /\ token.base = "source"
                    /\ token.start = began
                    /\ token.length = n + 2
               ELSE /\ token.type = "TOKEN_ERROR"
                    /\ token.base = "message"
                    /\ Contains(message.arg, SubSeq(source, began + 2, k))

\* C10 (each call): a string or character literal that runs to the end of
\* the buffer with neither closing quote nor newline is TOKEN_ERROR, the
\* cursor at the end of the buffer.
C10_ErrorAtEnd ==
    (Returned /\ Lead \in {"\"", "'"} /\ Unterminated(source, began, Lead)) =>
        /\ token.type = "TOKEN_ERROR"
        /\ token.base = (IF Lead = "'" THEN "unterminatedChar" ELSE "unterminatedString")
        /\ current = Len(source)

\* C10 (successive calls): the call after that one returns TOKEN_EOF.
C10_ThenEOF ==
    (/\ Returned
     /\ Lead \in {"\"", "'"}
     /\ Unterminated(source, began, Lead)
     /\ lastOp' = "scan")
        => (~fault' /\ token'.type = "TOKEN_EOF")

\* C10: unterminated literals give TOKEN_ERROR at the end of the buffer and
\* the very next call gives TOKEN_EOF.
C10_Unterminated == []C10_ErrorAtEnd /\ [][C10_ThenEOF]_vars

C10_Witness ==
    /\ Returned
    /\ source = <<"a", " ", "\"", "a">>
    /\ token.type = "TOKEN_ERROR"
    /\ token.base = "unterminatedString"
    /\ began = 2
    /\ current = 4

\* a newline follows the quote q opened at s before any closing q
MultiLine(src, s, q) ==
    \E k \in s + 1 .. Len(src) - 1 :
        /\ CharAt(src, k) = "\n"
        /\ \A j \in s + 1 .. k - 1 : CharAt(src, j) # q

\* the offset of the first newline after s
FirstNewline(src, s) ==
    CHOOSE k \in s + 1 .. Len(src) - 1 :
        /\ CharAt(src, k) = "\n"
        /\ \A j \in s + 1 .. k - 1 : CharAt(src, j) # "\n"

\* the source from offset k on
Suffix(src, k) == SubSeq(src, k + 1, Len(src))

\* the token a scanner just initialised on src returns first, its span
\* offset moved by k
FirstToken(src, k) ==
    LET t == scanToken(src, [start |-> 0, current |-> 0, line |-> 1],
                       EmptyMessage).token
    IN  [type |-> t.type, base |-> t.base, length |-> t.length,
         start |-> IF t.base = "source" THEN t.start + k ELSE t.start]

\* type, pointer and length of the token last returned
Span(t) == [type |-> t.type, base |-> t.base, length |-> t.length, start |-> t.start]

\* the last call opened a literal that meets a newline before its quote
IsMultiLine == Returned /\ Lead \in {"\"", "'"} /\ MultiLine(source, began, Lead)

\* C11 (each call): the literal is TOKEN_ERROR and the cursor is on the
\* newline.
C11_ErrorOnNewline ==
    IsMultiLine =>
        /\ token.type = "TOKEN_ERROR"
        /\ token.base = (IF Lead = "'" THEN "multiLineChar" ELSE "multiLineString")
        /\ current = FirstNewline(source, began)

\* C11 (each call): the ERROR token reports the line the opening quote
\* stands on.
C11_LineOfQuote ==
    IsMultiLine => token.line = 1 + NewlinesBefore(source, began)

\* C11 (the call itself): the line counter is not changed.
C11_LineKept ==
    (lastOp' = "scan" /\ ~fault' /\ Lead' \in {"\"", "'"}
     /\ MultiLine(source', began', Lead'))
        => line' = line

\* C11 (successive calls): the next call returns the first token of the
\* source from the newline on.
C11_Resumes ==
    (IsMultiLine /\ lastOp' = "scan")
        => /\ ~fault'
           /\ Span(token') = FirstToken(Suffix(source, current), current)

\* C11: a literal that meets a newline before its closing quote is
\* TOKEN_ERROR with the cursor left on the newline and the line counter
\* untouched, the token reporting the line of the opening quote; the next
\* call resumes from the newline.
C11_MultiLine ==
    /\ []C11_ErrorOnNewline
    /\ []C11_LineOfQuote
    /\ [][C11_LineKept]_vars
    /\ [][C11_Resumes]_vars

\* offset k of src lies in a '//' comment: a "//" begins at or before it on
\* its line
InComment(src, k) ==
    \E j \in 0 .. k :
        /\ CharAt(src, j) = "/"
        /\ CharAt(src, j + 1) = "/"
        /\ \A i \in j .. k : CharAt(src, i) # "\n"

\* src consists of spaces, tabs, carriage returns, newlines and comments
IsBlank(src) ==
    \A k \in 0 .. Len(src) - 1 :
        CharAt(src, k) \in {" ", "\t", "\r", "\n"} \/ InComment(src, k)

\* C12 (each call): on a source of whitespace and comments alone scanToken
\* returns nothing but an empty TOKEN_EOF at the end of the source.
C12_OnlyEOF ==
    (Returned /\ IsBlank(source)) =>
        /\ token.type = "TOKEN_EOF"
        /\ token.length = 0
        /\ token.start = Len(source)

\* C12 (the first call): the call that follows initScanner returns it.
C12_FirstCall ==
    (lastOp = "init" /\ IsBlank(source) /\ lastOp' = "scan") =>
        /\ ~fault'
        /\ token'.type = "TOKEN_EOF"
        /\ token'.length = 0

\* C12: for a source of spaces, tabs, carriage returns, newlines and '//'
\* comments alone, the first scanToken call after initScanner returns
\* TOKEN_EOF of length 0 and no other token is ever produced.
C12_Blank == []C12_OnlyEOF /\ [][C12_FirstCall]_vars

C12_Witness ==
    /\ Returned
    /\ source = <<"\t", "/", "/", "a", "\r">>
    /\ token.type = "TOKEN_EOF"
    /\ token.length = 0
    /\ current = 5

\* c begins no token: it is neither a letter, an underscore, a digit, a
\* quote, nor a punctuation or operator character
Unexpected(c) ==
    /\ ~isAlpha(c)
    /\ ~isDigit(c)
    /\ c \notin {"\"", "'"}
    /\ c \notin PunctChars
    /\ c \notin OpSigma
    /\ c \notin {" ", "\t", "\r", "\n", NUL, OOB}

\* the last call met a character that begins no token
IsUnexpected == Returned /\ Unexpected(Lead)

\* C13 (each call): the token is TOKEN_ERROR, its text in `message` names
\* the character, and exactly that character is consumed.
C13_ErrorNamesChar ==
    IsUnexpected =>
        /\ token.type = "TOKEN_ERROR"
        /\ token.base = "message"
        /\ message.arg = <<Lead>>
        /\ token.length = strlen(message)
        /\ current = began + 1

\* C13 (the call itself): the line counter is not changed.
C13_LineKept ==
    (lastOp' = "scan" /\ ~fault' /\ Unexpected(CharAt(source', began')))
        => line' = line

\* C13 (successive calls): the next call returns the first token of the
\* source from the character after it on.
C13_Resumes ==
    (IsUnexpected /\ lastOp' = "scan")
        => /\ ~fault'
           /\ Span(token') = FirstToken(Suffix(source, began + 1), began + 1)

\* C13: a lead character that begins no token gives TOKEN_ERROR whose
\* message embeds it, consumes that one character, leaves the line counter
\* alone, and the next call tokenizes the rest as if the source began there.
C13_UnexpectedChar ==
    /\ []C13_ErrorNamesChar
    /\ [][C13_LineKept]_vars
    /\ [][C13_Resumes]_vars

C13_Witness ==
    /\ IsUnexpected
    /\ source = <<"a", "@", "\\", "1">>
    /\ began = 2
    /\ message.arg = <<"\\">>
    /\ current = 3

\* C14: the text stored into `message`, its terminating NUL included, never
\* takes more than the MessageSize bytes of the buffer; the diagnostic of
\* an over-long character literal is cut short to fit.
C14_BufferBound == BytesWritten(message) <= MessageSize

\* the last call returned TOKEN_EOF
AtEOF == Returned /\ token.type = "TOKEN_EOF"

\* C15 (successive calls): once scanToken has returned TOKEN_EOF, a further
\* scanToken call returns TOKEN_EOF again, of length 0 and of the same line, and leaves
\* start, current and line as they were.
C15_Absorbing ==
    (AtEOF /\ lastOp' = "scan") =>
        /\ ~fault'
        /\ token'.type = "TOKEN_EOF"
        /\ token'.length = 0
        /\ token'.line = token.line
        /\ start' = start
        /\ current' = current
        /\ line' = line

\* C15 (the call to come): in a state TOKEN_EOF was returned in, what a
\* scanToken call would do is return the same token and change nothing.
C15_Again ==
    AtEOF =>
        LET r == scanToken(source, Scanner, message)
        IN  /\ r.token.type = "TOKEN_EOF"
            /\ r.token.length = 0
            /\ r.token.line = token.line
            /\ r.sc = Scanner
            /\ r.written = 0

\* C15: TOKEN_EOF is absorbing.
C15_EOFIsAbsorbing == []C15_Again /\ [][C15_Absorbing]_vars

C15_Witness ==
    /\ AtEOF
    /\ source = <<"a", " ", "/", "/">>
    /\ token.length = 0
    /\ start = Len(source)
    /\ current = Len(source)

\* the scanner initScanner leaves behind
FreshScanner == [start |-> 0, current |-> 0, line |-> 1]

RECURSIVE FreshCalls(_, _, _)
\* the scanToken calls of a scanner that was initialised on src and has
\* done nothing else, from the scanner value sc on: each with the scanner
\* it starts from and what it hands back; n bounds their number, and the
\* call after TOKEN_EOF is the last one listed
FreshCalls(src, sc, n) ==
    IF n = 0 THEN {}
    ELSE LET r == scanToken(src, sc, EmptyMessage)
         IN  {[pre |-> sc, res |-> r]}
             \cup (IF r.token.type = "TOKEN_EOF"
                   THEN {[pre |-> r.sc, res |-> scanToken(src, r.sc, r.message)]}
                   ELSE FreshCalls(src, r.sc, n - 1))

\* C16 (initScanner): start and current are offset 0 of the source and the
\* line is 1.
C16_Rewound ==
    lastOp = "init" => (start = 0 /\ current = 0 /\ line = 1)

\* C16 (every later call): the call does what the call of a fresh scanner
\* at the same place in the same source does: same token (type, pointer,
\* length, line) and same scanner afterwards; where the fresh call stores
\* past `message`, one of the outcomes of that.
C16_AsFresh ==
    (lastOp' = "scan" /\ current # WildPtr) =>
        \E c \in FreshCalls(source, FreshScanner, Len(source) + 1) :
            /\ c.pre = Scanner
            /\ \/ /\ ~fault'
                  /\ token' = c.res.token
                  /\ Scanner' = c.res.sc
               \/ /\ c.res.written > MessageSize
                  /\ ~fault'
                  /\ token' = c.res.token
                  /\ current' = WildPtr
               \/ /\ c.res.written > MessageSize
                  /\ fault'

\* C16: whatever calls came before, initScanner(source) rewinds the scanner
\* to offset 0 and line 1, and the tokens produced afterwards are those of
\* a fresh scanner on the same source.
C16_Reset == []C16_Rewound /\ [][C16_AsFresh]_vars

\* the line of the read-eval-print loop tokenized after a source that left
\* a diagnostic in `message`
C16_Witness ==
    /\ Returned
    /\ source = NextLine
    /\ message.arg = <<"@">>
    /\ token = [type |-> "TOKEN_IDENTIFIER", base |-> "source", start |-> 0,
                length |-> 1, line |-> 1]

\* the last call returned TOKEN_ERROR
IsError == Returned /\ token.type = "TOKEN_ERROR"

\* the text read through the pointer of token t when the buffer holds msg
SeenThrough(t, msg) ==
    IF t.base = "message" THEN msg ELSE Literals[t.base]

\* the last call's error is one of the two whose text is formatted: a
\* closed character literal or a character that begins no token
IsFormatted ==
    \/ Lead \notin {"\"", "'"}
    \/ Lead = "'" /\ HasClosing(source, began, "'")

\* the text character() or errorTokenWithChar() formats for the lexeme at
\* offset s of src
Formatted(src, s) ==
    IF CharAt(src, s) = "'"
    THEN CStr(19, SubSeq(src, s + 2, FirstQuote(src, s, "'")))
    ELSE CStr(15, <<CharAt(src, s)>>)

\* C17 (as stated): the start of every TOKEN_ERROR token points into the
\* one reused buffer `message`, whatever the kind of the error.
C17_AllInMessage == IsError => token.base = "message"

\* C17 (each call): the start of a TOKEN_ERROR token never points into the
\* source; it points into `message` for the two formatted kinds and to a
\* string literal of the program for the four fixed kinds, and the token's
\* length is the length of the text it points to.
C17_Pointers ==
    IsError =>
        /\ token.base # "source"
        /\ token.start = 0
        /\ IF IsFormatted
           THEN token.base = "message" /\ message = Formatted(source, began)
           ELSE token.base \in LiteralNames
        /\ token.length = strlen(SeenThrough(token, message))

\* C17 (successive errors): a later formatted error replaces the text an
\* earlier formatted error's token points to; a later fixed error leaves
\* `message` as it was; the text of a fixed error is never replaced.
C17_Replaced ==
    (IsError /\ lastOp' = "scan" /\ ~fault' /\ token'.type = "TOKEN_ERROR") =>
        /\ (token.base = "message" /\ token'.base = "message") =>
                SeenThrough(token, message') = Formatted(source', began')
        /\ token'.base # "message" => message' = message
        /\ token.base # "message" =>
                SeenThrough(token, message') = SeenThrough(token, message)

\* C17 (amended): error tokens never point into the source; only the two
\* formatted kinds share the reused buffer.
C17_ErrorPointers == []C17_Pointers /\ [][C17_Replaced]_vars

\* a fixed error after a formatted one: `message` still holds the text of
\* the first
C17_Witness ==
    /\ IsError
    /\ source = <<"@", "\"">>
    /\ began = 1
    /\ token.base = "unterminatedString"
    /\ message = FormatUnexpected("@")

\* the token the next scanToken call returns, as the scanner stands
Pending == scanToken(source, Scanner, message).token

\* C18 (one interleaving): between two scanToken calls of a session that
\* has not yet met TOKEN_EOF, another session calls initScanner on its own
\* source; the token the first session's next call returns is the one it
\* returns without that.
C18_Undisturbed ==
    (/\ Returned
     /\ token.type # "TOKEN_EOF"
     /\ current # WildPtr
     /\ lastOp' = "init"
     /\ source' # source)
        => Pending' = Pending

\* C18: the cursor state belongs to a session: calls of a session over
\* another source, made between two scanToken calls of a session, do not
\* change the tokens the latter is handed.
C18_SessionScoped == [][C18_Undisturbed]_vars

\* C19 (one call): scanToken does not move the read cursor back, and moves
\* it forward by at least one character unless it returns TOKEN_EOF.
C19_Progress ==
    (lastOp' = "scan" /\ ~fault') =>
        /\ current' >= current
        /\ token'.type # "TOKEN_EOF" => current' >= current + 1

\* C19: across every scanToken call `current` never decreases, and it
\* strictly increases whenever the token returned is not TOKEN_EOF, every
\* kind of TOKEN_ERROR included.
C19_NoBacktracking == [][C19_Progress]_vars

\* C20: once initScanner has been called, in every state the process is
\* alive in, 0 <= start <= current <= length(source): the cursor is never
\* past the terminating NUL, so that no read goes beyond it.
C20_Bounds ==
    (lastOp # "none" /\ ~fault) =>
        /\ 0 <= start
        /\ start <= current
        /\ current <= Len(source)

\* the last call returned a token that is neither TOKEN_ERROR nor TOKEN_EOF
IsLexeme == Returned /\ token.type \notin {"TOKEN_ERROR", "TOKEN_EOF"}

\* the characters of src from offset a up to, not including, offset b are
\* whitespace and whole comments: offset b is outside every comment
BlankBetween(src, a, b) ==
    /\ a <= b
    /\ IsBlank(SubSeq(src, a + 1, b))
    /\ ~InComment(Suffix(src, a), b - a)

\* C21 (each call): the span of a token that is neither TOKEN_ERROR nor
\* TOKEN_EOF lies in the source, holds at least one character, begins where
\* skipping ended and ends at the cursor.
C21_SpanIsConsumed ==
    IsLexeme =>
        /\ token.base = "source"
        /\ 0 <= token.start
        /\ token.start < Len(source)
        /\ token.length >= 1
        /\ token.start = start
        /\ token.start + token.length = current

\* C21 (successive calls): such a token begins at or after the cursor the
\* previous call left (the end of the previous span, or of the text an
\* ERROR token consumed), and only whitespace and comments lie between.
C21_InOrder ==
    (lastOp # "none" /\ current # WildPtr /\ lastOp' = "scan" /\ ~fault'
     /\ token'.type \notin {"TOKEN_ERROR", "TOKEN_EOF"})
        => BlankBetween(source, current, token'.start)

\* C21: spans of tokens other than TOKEN_ERROR and TOKEN_EOF cover exactly
\* the characters consumed for them; successive spans are disjoint, in
\* source order, and separated by whitespace, comments and error text only.
C21_SpanExactness == []C21_SpanIsConsumed /\ [][C21_InOrder]_vars

\* the least element of a non-empty set of integers
Least(S) == CHOOSE k \in S : \A j \in S : k <= j

\* the offset at which the token after offset a of src begins: the first
\* character at or after a that is neither whitespace nor part of a comment
\* begun at or after a; the end of the source if there is none
SkipEnd(src, a) ==
    Least({k \in a .. Len(src) - 1 :
                /\ CharAt(src, k) \notin {" ", "\t", "\r", "\n"}
                /\ ~InComment(Suffix(src, a), k - a)}
          \cup {Len(src)})

\* the offset the comment that begins at offset k of src ends before: its
\* line's newline, or the end of the source
LineEnd(src, k) ==
    Least({j \in k .. Len(src) - 1 : CharAt(src, j) = "\n"} \cup {Len(src)})

\* C22 (the comment loop): from the first '/' of a comment the loop stops
\* on the next newline, not past it, or at the end of the buffer.
C22_ToLineEnd ==
    \A k \in 0 .. Len(source) - 2 :
        (CharAt(source, k) = "/" /\ CharAt(source, k + 1) = "/")
            => skipLineComment(source, k) = LineEnd(source, k)

\* C22 (each call): no token begins at '//'; a '/' that begins a token is
\* TOKEN_SLASH_EQUAL if '=' follows it and TOKEN_SLASH if not.
C22_SlashToken ==
    (Returned /\ Lead = "/") =>
        /\ CharAt(source, began + 1) # "/"
        /\ token.start = began
        /\ IF CharAt(source, began + 1) = "="
           THEN token.type = "TOKEN_SLASH_EQUAL" /\ token.length = 2
           ELSE token.type = "TOKEN_SLASH" /\ token.length = 1

\* C22 (one call): whatever mix of whitespace and comments lies at the
\* cursor, the call skips all of it and nothing else.
C22_SkippedAtOnce ==
    (lastOp # "none" /\ current # WildPtr /\ lastOp' = "scan" /\ ~fault')
        => began' = SkipEnd(source, current)

\* C22: '//' at a token boundary never produces a token: the comment is
\* skipped to its newline or to the end of the buffer, together with all
\* whitespace and comments around it, in one call; a '/' not followed by
\* '/' is left for the switch and becomes TOKEN_SLASH or TOKEN_SLASH_EQUAL.
C22_CommentElision ==
    /\ []C22_ToLineEnd
    /\ []C22_SlashToken
    /\ [][C22_SkippedAtOnce]_vars

C22_Witness ==
    /\ Returned
    /\ source = <<"/", "/", "\n", "/", "=">>
    /\ began = 3
    /\ token.type = "TOKEN_SLASH_EQUAL"
    /\ current = 5

\* c may stand in an identifier
IsWordChar(c) == isAlpha(c) \/ isDigit(c)

\* the offset just after the longest run of letters, digits and
\* underscores of src that begins at offset s
RunEnd(src, s) ==
    Least({k \in s .. Len(src) : ~IsWordChar(CharAt(src, k))})

\* the tags identifier() can give a token
WordTags == {"TOKEN_IDENTIFIER"} \cup {k.tag : k \in ReservedWords}

\* C23 (each call): a token whose lead character is a letter or an
\* underscore is an identifier or a reserved word and spans the whole run of
\* letters, digits and underscores from that character on.
C23_WholeRun ==
    (Returned /\ isAlpha(Lead)) =>
        /\ token.type \in WordTags
        /\ token.base = "source"
        /\ token.start = began
        /\ token.start + token.length = RunEnd(source, began)
        /\ current = RunEnd(source, began)
        /\ ~IsWordChar(CharAt(source, token.start + token.length))
        /\ TokenText \in {<<"i", "n", "t", "9">>, <<"f", "o", "r", "_">>}
                => token.type = "TOKEN_IDENTIFIER"

\* C23 (digits, then letters): a number stops before a letter, and the
\* next call returns the identifier that begins there.
C23_AfterNumber ==
    (/\ Returned
     /\ token.type = "TOKEN_NUMBER"
     /\ isAlpha(CharAt(source, current))
     /\ lastOp' = "scan")
        => /\ ~fault'
           /\ token'.type \in WordTags
           /\ token'.start = current
           /\ token'.start + token'.length = RunEnd(source, current)

\* C23: identifiers and reserved words take the maximal run of letters,
\* digits and underscores, so that "int9" and "for_" are one
\* TOKEN_IDENTIFIER each and "123abc" is a number, then an identifier.
C23_MaximalMunch == []C23_WholeRun /\ [][C23_AfterNumber]_vars

C23_Witness ==
    /\ Returned
    /\ source = <<"1", "2", "3", "a", "b", "c">>
    /\ token.type = "TOKEN_IDENTIFIER"
    /\ token.start = 3
    /\ token.length = 3
    /\ current = 6

\* C24 (match): it returns true exactly when the cursor is not at the end
\* of the buffer and the character under it is the expected one; then the
\* cursor has advanced by one, otherwise it has not moved; start and line
\* are as before.
C24_Match ==
    lastOp' = "match" =>
        LET ok == /\ ~isAtEnd(source, current)
                  /\ CharAt(source, current) = probe'.arg
        IN  /\ probe'.ret = ok
            /\ current' = (IF ok THEN current + 1 ELSE current)
            /\ start' = start
            /\ line' = line
            /\ source' = source

\* C24 (peek, peekNext): the scanner is as before.
C24_Peeks ==
    lastOp' \in {"peek", "peekNext"} =>
        /\ start' = start
        /\ current' = current
        /\ line' = line
        /\ source' = source

\* C24: match(expected) consumes one character and returns true if and
\* only if that character is the expected one and the buffer has not
\* ended, and changes nothing otherwise; peek and peekNext change nothing.
C24_LookaheadFrame == [][C24_Match]_vars /\ [][C24_Peeks]_vars

\* on "+=": match('=') has consumed the '=' after the '+'
C24_Witness ==
    /\ lastOp = "match"
    /\ source = <<"+", "=">>
    /\ probe = [arg |-> "=", ret |-> TRUE]
    /\ start = 0
    /\ current = 2
    /\ line = 1

============================================================================
